---- MODULE Spec2Model ----
(***************************************************************************)
(* The node e2e runner (test/e2e_node/runner/run_e2e.go): main builds the  *)
(* test archive once, starts one goroutine per target (testImage for an    *)
(* image, testHost for a fixed host), collects one TestResult per target   *)
(* from the results channel and sets the exit code.                        *)
(* A second, independent program is the shared informer factory            *)
(* (pkg/controller/framework/informers/factory.go) and its Start method.   *)
(***************************************************************************)
EXTENDS Integers, FiniteSets, Sequences, TLC

\* ------------------------------------------------------------------ bounds
\* Largest number of targets (images plus hosts) of one run.
MaxTargets == 2
\* Largest number of images among them.
MaxImages == 1
\* In Spec a backend starts to report RUNNING (resp. a verified docker
\* daemon) at call 1..MaxDelay, or never (0).
MaxDelay == 1
\* Largest number of calls of sharedInformerFactory.Start.
MaxStarts == 2

\* -------------------------------------------------------- program constants
\* createInstance: for i := 0; i < 30 && !instanceRunning; i++
Attempts == 30

TargetNames == <<"t1", "t2", "t3", "t4">>

\* the images the short names of an image configuration may name
ImageNames == <<"img1", "img2", "img3">>

\* GCEImage.Image of a target that is a fixed host
NoImage == ""

\* the types sharedInformerFactory holds informers for (factory.go:32-43)
InformerTypes == {"Pod", "Node", "Namespace", "PersistentVolumeClaim",
                  "PersistentVolume"}

Index(t) == CHOOSE k \in 1..Len(TargetNames) : TargetNames[k] = t

\* error values: "nil" is Go's nil error
Nil == "nil"

\* zero value of TestResult.host, and the two kinds of host names
NoHost == <<>>

HostName(h) == <<"host", h>>

\* func imageToInstanceName(image string) string
imageToInstanceName(image) == <<"instance-name-prefix", image>>

\* the value a caller of getArchive has before the call returns
NoPair == <<>>

\* no TestResult yet
NoResult == [none |-> TRUE]

\* the results channel holds nothing
Empty == <<>>

\* the process is still running
Running == "running"

VARIABLES
    kind,             \* target -> "image" | "host" (gceImages.Images, *hosts)
    gceImage,         \* short name -> gceImages.Images[shortName].Image
    deleteInstances,  \* flag --delete-instances
    cleanup,          \* flag --cleanup
    runningFrom,      \* backend: first status poll that reports RUNNING (0: none)
    verifiedFrom,     \* backend: first docker-version probe that succeeds (0: none)
    pc,               \* position of every goroutine: targets, "main", "arc"
    once,             \* arc.Once: "idle" | "running" | "done"
    arc,              \* arc.path, arc.err
    builds,           \* number of times CreateTestArchive ran
    archiveFile,      \* the archive exists on disk
    got,              \* caller -> the (path, err) its getArchive returned
    ci,               \* target -> what createInstance did and returned
    deferred,         \* target -> testImage deferred deleteInstance
    deleteFiles,      \* target -> deleteFiles argument of testHost
    remote,           \* target -> outcome of e2e_node.RunRemote
    deletes,          \* target -> Instances.Delete requests issued
    deleteErr,        \* target -> the error of its Instances.Delete
    hostStatus,       \* target -> the answer of Instances.Get in testHost
    result,           \* target -> the TestResult its executor returned
    results,          \* the results channel
    sent,             \* target -> sends on results
    received,         \* the TestResults main received, in order
    recvFrom,         \* the targets they came from, in order
    running,          \* main: number of goroutines launched
    errCount,         \* main: results with err != nil
    exitOk,           \* main: AND of the results' exitOk
    exitCode,         \* Running, or the exit code of the process
    informers,        \* sharedInformerFactory.informers (the keys of the map)
    launched,         \* informer -> the stop channels its Run was started with
    starts            \* the calls of sharedInformerFactory.Start, in order

vars == <<kind, gceImage, deleteInstances, cleanup, runningFrom, verifiedFrom,
          pc, once, arc, builds, archiveFile, got, ci, deferred, deleteFiles,
          remote, deletes, deleteErr, hostStatus, result, results, sent,
          received, recvFrom, running, errCount, exitOk, exitCode, informers,
          launched, starts>>

config ==
    <<kind, gceImage, deleteInstances, cleanup, runningFrom, verifiedFrom>>

\* the state of the runner beside its configuration
runner == <<pc, once, arc, builds, archiveFile, got, ci, deferred, deleteFiles,
            remote, deletes, deleteErr, hostStatus, result, results, sent,
            received, recvFrom, running, errCount, exitOk, exitCode>>

\* the state of the shared informer factory
factory == <<informers, launched, starts>>

targets == DOMAIN kind

images == {t \in targets : kind[t] = "image"}

hosts == {t \in targets : kind[t] = "host"}

Procs == targets \cup {"main", "arc"}

\* ------------------------------------------------------------ TestResult
TestResult(output, err, host, ok) ==
    [output |-> output, err |-> err, host |-> host, exitOk |-> ok]

\* a status failure reported with exitOk set
StatusFailResultOk(host, err) == TestResult("", err, host, TRUE)

\* The TestResult of testHost when Instances.Get fails or the instance is not
\* RUNNING (run_e2e.go:231, 239)
StatusFailResult(host, err) == TestResult("", err, host, FALSE)

\* an archive failure reported with exitOk set
ArchiveFailResultOk(host, err) ==
    TestResult("", "unable to create test archive", NoHost, TRUE)

\* The TestResult of testHost when getArchive returns an error (run_e2e.go:253)
ArchiveFailResult(host, err) ==
    TestResult("", "unable to create test archive", NoHost, FALSE)

\* a result that turns every failed run into an error
RunResultWrapped(host, out) ==
    TestResult(out.output, IF out.exitOk THEN out.err ELSE "tests failed",
               host, out.exitOk)

\* The TestResult of testHost after e2e_node.RunRemote (run_e2e.go:259)
RunResult(host, out) == TestResult(out.output, out.err, host, out.exitOk)

\* The TestResult of testImage when createInstance fails (run_e2e.go:275)
ProvisionFailResult(image, err) ==
    TestResult("", "unable to create gce instance", NoHost, FALSE)

\* ------------------------------------------------------- external services
\* strings.ToUpper on the status words the compute API is given here
ToUpper(s) ==
    CASE s = "running" -> "RUNNING"
      [] s = "Running" -> "RUNNING"
      [] s = "stopping" -> "STOPPING"
      [] OTHER -> s

\* a probe that takes any reply of the instance for a running daemon
ContainsServerAny(output) == TRUE

\* strings.Contains(output, "Server") on the outputs of `docker version`
ContainsServer(output) == output \in {"Client Server", "Server"}

\* What a compute backend does beside its delays: Insert fails (the call, or
\* the operation it returns), or Insert succeeds and then: what a status read
\* gives while the instance is not up, the status word once it is up, and how
\* a docker-version probe fails while the daemon is not ready.
Backends ==
    [insert : {"doErr", "opErr"}, fault : {"getErr"}, up : {"RUNNING"},
     probeFault : {"sshErr"}]
    \cup
    [insert : {"ok"}, fault : {"getErr", "PROVISIONING"},
     up : {"RUNNING", "running"}, probeFault : {"sshErr", "Client"}]

\* computeService.Instances.Get(project, zone, name).Do() on status read n
InstancesGet(t, b, n) ==
    IF runningFrom[t] # 0 /\ n >= runningFrom[t]
    THEN [err |-> Nil, status |-> b.up]
    ELSE IF b.fault = "getErr"
         THEN [err |-> "get failed", status |-> ""]
         ELSE [err |-> Nil, status |-> b.fault]

\* e2e_node.RunSshCommand("ssh", host, "--", "sudo", "docker", "version"),
\* probe number m
DockerVersion(t, b, m) ==
    IF verifiedFrom[t] # 0 /\ m >= verifiedFrom[t]
    THEN [err |-> Nil, output |-> "Client Server"]
    ELSE IF b.probeFault = "sshErr"
         THEN [err |-> "exit status 255", output |-> ""]
         ELSE [err |-> Nil, output |-> b.probeFault]

\* The outcomes of e2e_node.RunRemote: the target could not be reached, the
\* test command ran and exited non-zero, the test command ran and exited zero.
RemoteOutcomes ==
    { [output |-> "", exitOk |-> FALSE, err |-> "unreachable",
       delivered |-> FALSE, ran |-> FALSE, exit |-> "none"],
      [output |-> "FAIL", exitOk |-> FALSE, err |-> Nil,
       delivered |-> TRUE, ran |-> TRUE, exit |-> "nonzero"],
      [output |-> "PASS", exitOk |-> TRUE, err |-> Nil,
       delivered |-> TRUE, ran |-> TRUE, exit |-> "zero"] }

NotRun == [output |-> "", exitOk |-> FALSE, err |-> Nil,
           delivered |-> FALSE, ran |-> FALSE, exit |-> "notcalled"]

\* The outcomes of e2e_node.CreateTestArchive
BuildOutcomes ==
    { [path |-> "e2e_node_test.tar.gz", err |-> Nil],
      [path |-> "", err |-> "build failed"] }

\* ---------------------------------------------------------- createInstance
\* a loop that makes one attempt too many
LoopCondOffByOne(i, instanceRunning) == i <= Attempts /\ ~instanceRunning

\* the loop condition of createInstance: i < 30 && !instanceRunning
LoopCond(i, instanceRunning) == i < Attempts /\ ~instanceRunning

\* one pass of the loop body of createInstance
Attempt(t, b, s) ==
    LET n == s.polls + 1
        instance == InstancesGet(t, b, n)
        polled == [s EXCEPT !.i = s.i + 1, !.polls = n]
    IN  IF instance.err # Nil
        THEN [polled EXCEPT !.err = instance.err]
        ELSE IF ToUpper(instance.status) # "RUNNING"
        THEN [polled EXCEPT !.err = "not in state RUNNING"]
        ELSE LET m == s.probes + 1
                 probe == DockerVersion(t, b, m)
                 probed == [polled EXCEPT !.probes = m, !.sawRunning = TRUE]
             IN  IF probe.err # Nil
                 THEN [probed EXCEPT !.err = "Command failed"]
                 ELSE IF ~ContainsServer(probe.output)
                 THEN [probed EXCEPT !.err = "Server not found"]
                 ELSE [probed EXCEPT !.err = Nil, !.instanceRunning = TRUE]

RECURSIVE PollLoop(_, _, _)
PollLoop(t, b, s) ==
    IF LoopCond(s.i, s.instanceRunning)
    THEN PollLoop(t, b, Attempt(t, b, s))
    ELSE s

\* the name of the instance of a target's image: testImage and
\* createInstance are given image.Image (run_e2e.go:178, 288)
InstanceName(t) == imageToInstanceName(gceImage[t])

NotCalled ==
    [called |-> FALSE, inserted |-> FALSE, name |-> NoHost, err |-> Nil,
     i |-> 0, instanceRunning |-> FALSE, sawRunning |-> FALSE,
     polls |-> 0, probes |-> 0, buildFailed |-> FALSE]

\* a createInstance that does not look at the error of the operation Insert
\* returned, and polls the instance that was not created
createInstanceOpErrorIgnored(t, b) ==
    LET entered == [NotCalled EXCEPT !.called = TRUE]
    IN  IF b.insert = "doErr"
        THEN [entered EXCEPT !.err = "insert failed"]
        ELSE PollLoop(t, b, [entered EXCEPT !.inserted = (b.insert = "ok"),
                                           !.name = InstanceName(t)])

\* func createInstance(image, imageProject string) (string, error)
\* name := imageToInstanceName(image)   (run_e2e.go:288)
createInstance(t, b) ==
    LET entered == [NotCalled EXCEPT !.called = TRUE]
    IN  IF b.insert = "doErr"
        THEN [entered EXCEPT !.err = "insert failed"]
        ELSE IF b.insert = "opErr"
        THEN [entered EXCEPT !.err = "could not create instance"]
        ELSE PollLoop(t, b, [entered EXCEPT !.inserted = TRUE,
                                           !.name = InstanceName(t)])

\* The answers of Instances.Get in testHost
\* no answer of Instances.Get yet
NoStatus == [err |-> Nil, status |-> "none"]

HostStatuses ==
    { [err |-> "get failed", status |-> ""],
      [err |-> Nil, status |-> "RUNNING"],
      [err |-> Nil, status |-> "running"],
      [err |-> Nil, status |-> "TERMINATED"] }

\* ------------------------------------------------------------------- Init
\* main starts the images first and the hosts after them: the first n target
\* names are images, the next m are hosts
Config(n, m) ==
    [t \in {TargetNames[k] : k \in 1..(n + m)} |->
       IF Index(t) <= n THEN "image" ELSE "host"]

Configs ==
    {Config(s[1], s[2]) :
       s \in {x \in (0..MaxImages) \X (0..MaxTargets) :
                x[1] + x[2] \in 1..MaxTargets}}

\* the backend delays of a configuration: those of a fixed host are not used
Delays(k, D) ==
    {f \in [DOMAIN k -> D] : \A t \in DOMAIN k : k[t] = "host" => f[t] = 0}

\* The state when main has parsed and validated its flags (run_e2e.go:94-160)
InitRest ==
    /\ pc = [p \in Procs |-> IF p = "main" THEN "start" ELSE "idle"]
    /\ once = "idle"
    /\ arc = [path |-> "", err |-> Nil]
    /\ builds = 0
    /\ archiveFile = FALSE
    /\ got = [p \in Procs |-> NoPair]
    /\ ci = [t \in targets |-> NotCalled]
    /\ deferred = [t \in targets |-> FALSE]
    /\ deleteFiles = [t \in targets |-> FALSE]
    /\ remote = [t \in targets |-> NotRun]
    /\ deletes = [t \in targets |-> 0]
    /\ deleteErr = [t \in targets |-> Nil]
    /\ hostStatus = [t \in targets |-> NoStatus]
    /\ result = [t \in targets |-> NoResult]
    /\ results = Empty
    /\ sent = [t \in targets |-> 0]
    /\ received = <<>>
    /\ recvFrom = <<>>
    /\ running = 0
    /\ errCount = 0
    /\ exitOk = TRUE
    /\ exitCode = Running

\* NewSharedInformerFactory: an empty map of informers (factory.go:53-59)
NewSharedInformerFactory ==
    /\ informers = {}
    /\ launched = [ty \in InformerTypes |-> <<>>]
    /\ starts = <<>>

\* --images: every short name is the name of its image (run_e2e.go:122-129)
CliImages(k) ==
    [t \in DOMAIN k |->
       IF k[t] = "image" THEN ImageNames[Index(t)] ELSE NoImage]

\* --image-config-file: a map from short names to images, which two short
\* names may share (run_e2e.go:75-91, 108-118)
ConfigFileImages(k) ==
    {f \in [DOMAIN k -> {ImageNames[i] : i \in 1..MaxTargets} \cup {NoImage}] :
       \A t \in DOMAIN k : f[t] = NoImage <=> k[t] = "host"}

Init ==
    /\ kind \in Configs
    /\ gceImage = CliImages(kind)
    /\ NewSharedInformerFactory
    /\ deleteInstances \in BOOLEAN
    /\ cleanup \in BOOLEAN
    /\ runningFrom \in Delays(kind, 0..MaxDelay)
    /\ verifiedFrom \in Delays(kind, 0..MaxDelay)
    /\ InitRest

\* One image with the default flags (--cleanup, --delete-instances: true) and
\* every backend delay within the budget of createInstance.
InitProvision ==
    /\ kind = [t \in {TargetNames[1]} |-> "image"]
    /\ gceImage = CliImages(kind)
    /\ NewSharedInformerFactory
    /\ deleteInstances = TRUE
    /\ cleanup = TRUE
    /\ runningFrom \in Delays(kind, 0..Attempts)
    /\ verifiedFrom \in Delays(kind, 0..Attempts)
    /\ InitRest

\* Two images given by an image configuration file, with the default flags
\* and a backend whose instances are up at the first poll and probe.
InitImages ==
    /\ kind = Config(2, 0)
    /\ gceImage \in ConfigFileImages(kind)
    /\ NewSharedInformerFactory
    /\ deleteInstances = TRUE
    /\ cleanup = TRUE
    /\ runningFrom = [t \in targets |-> 1]
    /\ verifiedFrom = [t \in targets |-> 1]
    /\ InitRest

\* ------------------------------------------------------------------- main
Alive == exitCode = Running

\* go arc.getArchive(); defer arc.deleteArchive()   (run_e2e.go:162-163)
Start ==
    /\ Alive
    /\ pc["main"] = "start"
    /\ pc' = [pc EXCEPT !["main"] = "getComputeClient", !["arc"] = "getArchive"]
    /\ UNCHANGED <<config, factory, once, arc, builds, archiveFile, got, ci,
                   deferred, deleteFiles, remote, deletes, deleteErr,
                   hostStatus, result, results, sent, received, recvFrom,
                   running, errCount, exitOk, exitCode>>

\* computeService, err = getComputeClient(); glog.Fatalf on an error
GetComputeClient ==
    /\ Alive
    /\ pc["main"] = "getComputeClient"
    /\ \E ok \in BOOLEAN :
         IF ok
         THEN /\ pc' = [pc EXCEPT !["main"] = "launch"]
              /\ UNCHANGED exitCode
         ELSE /\ pc' = [pc EXCEPT !["main"] = "exited"]
              /\ exitCode' = "255"
    /\ UNCHANGED <<config, factory, once, arc, builds, archiveFile, got, ci,
                   deferred, deleteFiles, remote, deletes, deleteErr,
                   hostStatus, result, results, sent, received, recvFrom,
                   running, errCount, exitOk>>

\* main ranges over gceImages.Images first, then over the hosts in the order
\* of --hosts
MayLaunch(t) ==
    /\ pc[t] = "idle"
    /\ kind[t] = "host" =>
         /\ \A u \in images : pc[u] # "idle"
         /\ \A u \in hosts : Index(u) < Index(t) => pc[u] # "idle"

\* a launch that is not counted
NotCounted(n) == n

\* running++   (run_e2e.go:174, 183)
Counted(n) == n + 1

\* running++; go func() { results <- testImage(...) }()  or
\* go func() { results <- testHost(host, *cleanup, ...) }()
Launch(t) ==
    /\ Alive
    /\ pc["main"] = "launch"
    /\ MayLaunch(t)
    /\ running' = Counted(running)
    /\ pc' = [pc EXCEPT
                ![t] = IF kind[t] = "image" THEN "testImage" ELSE "testHost",
                !["main"] = IF \A u \in targets \ {t} : pc[u] # "idle"
                            THEN "collect" ELSE "launch"]
    /\ deleteFiles' = [deleteFiles EXCEPT
                         ![t] = IF kind[t] = "host" THEN cleanup ELSE @]
    /\ UNCHANGED <<config, factory, once, arc, builds, archiveFile, got, ci,
                   deferred, remote, deletes, deleteErr, hostStatus, result,
                   results, sent, received, recvFrom, errCount, exitOk,
                   exitCode>>

\* the last result alone decides
AggregateLast(acc, ok) == ok

\* exitOk = exitOk && tr.exitOk   (run_e2e.go:203)
Aggregate(acc, ok) == acc /\ ok

\* a loop that waits for one result more than there are goroutines
MoreResultsAndOne(i, n) == i < n + 1

\* a loop that stops one result short
MoreResultsButLast(i, n) == i < n - 1

\* for i := 0; i < running; i++   (run_e2e.go:193)
MoreResults(i, n) == i < n

\* tr := <-results and the body of the collection loop (run_e2e.go:193-205)
Receive ==
    /\ Alive
    /\ pc["main"] = "collect"
    /\ MoreResults(Len(received), running)
    /\ results # Empty
    /\ LET from == results[1]
           tr == results[2]
       IN  /\ errCount' = IF tr.err # Nil THEN errCount + 1 ELSE errCount
           /\ exitOk' = Aggregate(exitOk, tr.exitOk)
           /\ received' = Append(received, tr)
           /\ recvFrom' = Append(recvFrom, from)
           /\ pc' = [pc EXCEPT ![from] = "done"]
    /\ results' = Empty
    /\ UNCHANGED <<config, factory, once, arc, builds, archiveFile, got, ci,
                   deferred, deleteFiles, remote, deletes, deleteErr,
                   hostStatus, result, sent, running, exitCode>>

\* After the loop: os.Exit(1) if !exitOk, else main returns and its deferred
\* arc.deleteArchive() runs (run_e2e.go:207-212, 163)
Collected ==
    /\ Alive
    /\ pc["main"] = "collect"
    /\ ~MoreResults(Len(received), running)
    /\ IF ~exitOk
       THEN /\ exitCode' = "1"
            /\ pc' = [pc EXCEPT !["main"] = "exited"]
       ELSE /\ pc' = [pc EXCEPT !["main"] = "getArchive"]
            /\ UNCHANGED exitCode
    /\ UNCHANGED <<config, factory, once, arc, builds, archiveFile, got, ci,
                   deferred, deleteFiles, remote, deletes, deleteErr,
                   hostStatus, result, results, sent, received, recvFrom,
                   running, errCount, exitOk>>

\* ---------------------------------------------------------------- Archive
\* a done flag tested without the mutex of the Once
MayBuildUnlocked(o) == o # "done"

\* sync.Once: the caller that finds the Once unused runs the function
MayBuild(o) == o = "idle"

\* a Do that returns while another caller is still building
MayReturnEarly(o) == o # "idle"

\* sync.Once: Do returns when the function has returned
MayReturn(o) == o = "done"

\* a.Do(...) of getArchive: the first caller goes on to build, a caller that
\* arrives during the build waits, a later caller returns at once
GetArchiveEnter(c) ==
    /\ Alive
    /\ pc[c] = "getArchive"
    /\ IF MayBuild(once)
       THEN /\ once' = "running"
            /\ pc' = [pc EXCEPT ![c] = "build"]
       ELSE /\ MayReturn(once)
            /\ pc' = [pc EXCEPT ![c] = "gotArchive"]
            /\ UNCHANGED once
    /\ UNCHANGED <<config, factory, arc, builds, archiveFile, got, ci,
                   deferred, deleteFiles, remote, deletes, deleteErr,
                   hostStatus, result, results, sent, received, recvFrom,
                   running, errCount, exitOk, exitCode>>

\* func() { a.path, a.err = e2e_node.CreateTestArchive() }
CreateTestArchive(c) ==
    /\ Alive
    /\ pc[c] = "build"
    /\ \E b \in BuildOutcomes :
         /\ arc' = b
         /\ archiveFile' = (b.err = Nil)
    /\ builds' = builds + 1
    /\ once' = "done"
    /\ pc' = [pc EXCEPT ![c] = "gotArchive"]
    /\ UNCHANGED <<config, factory, got, ci, deferred, deleteFiles, remote,
                   deletes, deleteErr, hostStatus, result, results, sent,
                   received, recvFrom, running, errCount, exitOk, exitCode>>

\* CreateTestArchive has run and returned an error
BuildFailed == once = "done" /\ arc.err # Nil

\* the build has failed and no executor has been given the failure yet
BuildFailedUnreported ==
    /\ BuildFailed
    /\ \A u \in targets : got[u] = NoPair

\* return a.path, a.err
getArchive == <<arc.path, arc.err>>

\* the goroutine of `go arc.getArchive()` ends
ArcReturn ==
    /\ Alive
    /\ pc["arc"] = "gotArchive"
    /\ got' = [got EXCEPT !["arc"] = getArchive]
    /\ pc' = [pc EXCEPT !["arc"] = "done"]
    /\ UNCHANGED <<config, factory, once, arc, builds, archiveFile, ci,
                   deferred, deleteFiles, remote, deletes, deleteErr,
                   hostStatus, result, results, sent, received, recvFrom,
                   running, errCount, exitOk, exitCode>>

\* func (a *Archive) deleteArchive(), deferred by main; main then returns
DeleteArchive ==
    /\ Alive
    /\ pc["main"] = "gotArchive"
    /\ got' = [got EXCEPT !["main"] = getArchive]
    /\ archiveFile' = IF getArchive[2] # Nil THEN archiveFile ELSE FALSE
    /\ exitCode' = "0"
    /\ pc' = [pc EXCEPT !["main"] = "exited"]
    /\ UNCHANGED <<config, factory, once, arc, builds, ci, deferred,
                   deleteFiles, remote, deletes, deleteErr, hostStatus,
                   result, results, sent, received, recvFrom, running,
                   errCount, exitOk>>

\* ------------------------------------------------------ testImage, testHost
\* the name testHost is given
HostOf(t) == IF kind[t] = "image" THEN ci[t].name ELSE HostName(t)

\* a defer placed after the error return of testImage
DeferDeleteOnSuccess(flag, err) == flag /\ err = Nil

\* if *deleteInstances { defer deleteInstance(image) }   (run_e2e.go:271)
DeferDelete(flag, err) == flag

\* a failure recognised by the empty name createInstance returns with some
\* of its errors
ProvisionFailedByName(name, err) == name = NoHost

\* if err != nil { return &TestResult{...} }   (run_e2e.go:274)
ProvisionFailed(name, err) == err # Nil

\* files cleaned on every image when --cleanup is set
DeleteFilesAlways(del, clean) == clean

\* files cleaned only on the instances that are deleted
DeleteFilesOnDeleted(del, clean) == del /\ clean

\* deleteFiles := !*deleteInstances && *cleanup   (run_e2e.go:282)
DeleteFilesArg(del, clean) == ~del /\ clean

\* a return that does not run the deferred call
ReturnNoDefer(d) == "send"

\* where an executor goes when testHost or testImage returns
Return(d) == IF d THEN "deleteInstance" ELSE "send"

\* testImage up to the call of testHost (run_e2e.go:270-283)
TestImage(t) ==
    /\ Alive
    /\ pc[t] = "testImage"
    /\ \E b \in Backends :
         LET c == createInstance(t, b)
             d == DeferDelete(deleteInstances, c.err)
         IN  /\ ci' = [ci EXCEPT ![t] = [c EXCEPT !.buildFailed =
                                                  BuildFailedUnreported]]
             /\ deferred' = [deferred EXCEPT ![t] = d]
             /\ IF ProvisionFailed(c.name, c.err)
                THEN /\ result' = [result EXCEPT
                                     ![t] = ProvisionFailResult(t, c.err)]
                     /\ pc' = [pc EXCEPT ![t] = Return(d)]
                     /\ UNCHANGED deleteFiles
                ELSE /\ deleteFiles' = [deleteFiles EXCEPT
                                          ![t] = DeleteFilesArg(deleteInstances,
                                                                cleanup)]
                     /\ pc' = [pc EXCEPT ![t] = "testHost"]
                     /\ UNCHANGED result
    /\ UNCHANGED <<config, factory, once, arc, builds, archiveFile, got,
                   remote, deletes, deleteErr, hostStatus, results, sent,
                   received, recvFrom, running, errCount, exitOk, exitCode>>

\* a status check that takes every status word for a running instance
NotRunningEmpty(status) == status = ""

\* strings.ToUpper(instance.Status) != "RUNNING"   (run_e2e.go:237)
NotRunning(status) == ToUpper(status) # "RUNNING"

\* testHost up to the call of arc.getArchive (run_e2e.go:229-248)
TestHostStatus(t) ==
    /\ Alive
    /\ pc[t] = "testHost"
    /\ \E instance \in HostStatuses :
         /\ hostStatus' = [hostStatus EXCEPT ![t] = instance]
         /\ IF instance.err # Nil
            THEN /\ result' = [result EXCEPT
                                 ![t] = StatusFailResult(HostOf(t),
                                                         instance.err)]
                 /\ pc' = [pc EXCEPT ![t] = Return(deferred[t])]
            ELSE IF NotRunning(instance.status)
            THEN /\ result' = [result EXCEPT
                                 ![t] = StatusFailResult(
                                          HostOf(t), "not in state RUNNING")]
                 /\ pc' = [pc EXCEPT ![t] = Return(deferred[t])]
            ELSE /\ pc' = [pc EXCEPT ![t] = "getArchive"]
                 /\ UNCHANGED result
    /\ UNCHANGED <<config, factory, once, arc, builds, archiveFile, got, ci,
                   deferred, deleteFiles, remote, deletes, deleteErr, results,
                   sent, received, recvFrom, running, errCount, exitOk,
                   exitCode>>

\* an archive error that is not looked at
ArchiveFailedNever(err) == FALSE

\* if err != nil   (run_e2e.go:251)
ArchiveFailed(err) == err # Nil

\* path, err := arc.getArchive() returns in testHost (run_e2e.go:250-256)
TestHostArchive(t) ==
    /\ Alive
    /\ t \in targets
    /\ pc[t] = "gotArchive"
    /\ got' = [got EXCEPT ![t] = getArchive]
    /\ IF ArchiveFailed(getArchive[2])
       THEN /\ result' = [result EXCEPT
                            ![t] = ArchiveFailResult(HostOf(t), getArchive[2])]
            /\ pc' = [pc EXCEPT ![t] = Return(deferred[t])]
       ELSE /\ pc' = [pc EXCEPT ![t] = "runRemote"]
            /\ UNCHANGED result
    /\ UNCHANGED <<config, factory, once, arc, builds, archiveFile, ci,
                   deferred, deleteFiles, remote, deletes, deleteErr,
                   hostStatus, results, sent, received, recvFrom, running,
                   errCount, exitOk, exitCode>>

\* output, exitOk, err := e2e_node.RunRemote(path, host, deleteFiles, ...) and
\* the return of testHost (run_e2e.go:258-264)
RunRemote(t) ==
    /\ Alive
    /\ pc[t] = "runRemote"
    /\ \E out \in RemoteOutcomes :
         /\ remote' = [remote EXCEPT ![t] = out]
         /\ result' = [result EXCEPT ![t] = RunResult(HostOf(t), out)]
    /\ pc' = [pc EXCEPT ![t] = Return(deferred[t])]
    /\ UNCHANGED <<config, factory, once, arc, builds, archiveFile, got, ci,
                   deferred, deleteFiles, deletes, deleteErr, hostStatus,
                   results, sent, received, recvFrom, running, errCount,
                   exitOk, exitCode>>

\* a failed delete that is put into the result
AfterDeleteEscalated(tr, err) ==
    IF err # Nil THEN [tr EXCEPT !.err = err, !.exitOk = FALSE] ELSE tr

\* The TestResult testImage returns once its deferred deleteInstance has run:
\* the deferred call has no access to it (run_e2e.go:271-273, 407-412)
AfterDelete(tr, err) == tr

\* func deleteInstance(image string), run as testImage returns: an error of
\* Instances.Delete is logged
DeleteInstance(t) ==
    /\ Alive
    /\ pc[t] = "deleteInstance"
    /\ \E err \in {Nil, "delete failed"} :
         /\ deleteErr' = [deleteErr EXCEPT ![t] = err]
         /\ result' = [result EXCEPT ![t] = AfterDelete(@, err)]
    /\ deletes' = [deletes EXCEPT ![t] = @ + 1]
    /\ pc' = [pc EXCEPT ![t] = "send"]
    /\ UNCHANGED <<config, factory, hostStatus, once, arc, builds,
                   archiveFile, got, ci, deferred, deleteFiles, remote,
                   results, sent, received, recvFrom, running, errCount,
                   exitOk, exitCode>>

\* results <- tr: the executor offers its TestResult and blocks until main
\* receives it
Send(t) ==
    /\ Alive
    /\ pc[t] = "send"
    /\ results = Empty
    /\ results' = <<t, result[t]>>
    /\ sent' = [sent EXCEPT ![t] = @ + 1]
    /\ pc' = [pc EXCEPT ![t] = "sending"]
    /\ UNCHANGED <<config, factory, once, arc, builds, archiveFile, got, ci,
                   deferred, deleteFiles, remote, deletes, deleteErr,
                   hostStatus, result, received, recvFrom, running, errCount,
                   exitOk, exitCode>>

\* ------------------------------------------------------------------- Next
Next ==
    \/ Start
    \/ GetComputeClient
    \/ \E t \in targets : Launch(t)
    \/ Receive
    \/ Collected
    \/ \E c \in Procs : GetArchiveEnter(c)
    \/ \E c \in Procs : CreateTestArchive(c)
    \/ ArcReturn
    \/ DeleteArchive
    \/ \E t \in targets : TestImage(t)
    \/ \E t \in targets : TestHostStatus(t)
    \/ \E t \in targets : TestHostArchive(t)
    \/ \E t \in targets : RunRemote(t)
    \/ \E t \in targets : DeleteInstance(t)
    \/ \E t \in targets : Send(t)

Spec == Init /\ [][Next]_vars

\* -------------------------------------------------- sharedInformerFactory
\* the stop channels Start is called with
StopChannels == {"stopCh1", "stopCh2"}

\* A run of the runner that is not started: the factory is another program.
InitFactory ==
    /\ kind = Config(0, 1)
    /\ gceImage = CliImages(kind)
    /\ deleteInstances = TRUE
    /\ cleanup = TRUE
    /\ runningFrom = [t \in targets |-> 0]
    /\ verifiedFrom = [t \in targets |-> 0]
    /\ InitRest
    /\ NewSharedInformerFactory

\* Pods().Informer(), Nodes().Informer(), ...: the informer of a type is
\* created and put into the map on its first request, under the lock
RegisterInformer(ty) ==
    /\ ty \notin informers
    /\ informers' = informers \cup {ty}
    /\ UNCHANGED <<config, runner, launched, starts>>

\* for _, informer := range s.informers { go informer.Run(stopCh) }
LaunchAll(runs, registered, stopCh) ==
    IF registered THEN Append(runs, stopCh) ELSE runs

\* func (s *sharedInformerFactory) Start(stopCh <-chan struct{}), under
\* s.lock (factory.go:62-69)
sharedInformerFactoryStart(stopCh) ==
    /\ Len(starts) < MaxStarts
    /\ launched' = [ty \in InformerTypes |->
                      LaunchAll(launched[ty], ty \in informers, stopCh)]
    /\ starts' = Append(starts, [stopCh |-> stopCh, informers |-> informers])
    /\ UNCHANGED <<config, runner, informers>>

NextFactory ==
    \/ \E ty \in InformerTypes : RegisterInformer(ty)
    \/ \E stopCh \in StopChannels : sharedInformerFactoryStart(stopCh)

SpecFactory == InitFactory /\ [][NextFactory]_vars

\* ---------------------------------------------------------------- fairness
\* the steps of the goroutine of main
MainStep ==
    \/ Start
    \/ GetComputeClient
    \/ \E t \in targets : Launch(t)
    \/ Receive
    \/ Collected
    \/ GetArchiveEnter("main")
    \/ CreateTestArchive("main")
    \/ DeleteArchive

\* the steps of the goroutine of `go arc.getArchive()`
ArcStep ==
    \/ GetArchiveEnter("arc")
    \/ CreateTestArchive("arc")
    \/ ArcReturn

\* the steps of the goroutine of target t
ExecutorStep(t) ==
    /\ t \in targets
    /\ \/ TestImage(t)
       \/ TestHostStatus(t)
       \/ GetArchiveEnter(t)
       \/ CreateTestArchive(t)
       \/ TestHostArchive(t)
       \/ RunRemote(t)
       \/ DeleteInstance(t)
       \/ Send(t)

\* every name a target can have
AllTargets == {TargetNames[k] : k \in 1..Len(TargetNames)}

\* the Go scheduler runs every goroutine that can run, and every external
\* call returns
Fairness ==
    /\ WF_vars(MainStep)
    /\ WF_vars(ArcStep)
    /\ \A t \in AllTargets : WF_vars(ExecutorStep(t))

\* The runs of Init with --cleanup at its default: the flag decides an
\* argument of RunRemote and no step of a goroutine.
InitLive ==
    /\ Init
    /\ cleanup = TRUE

SpecLive == InitLive /\ [][Next]_vars /\ Fairness

SpecProvision == InitProvision /\ [][Next]_vars

SpecImages == InitImages /\ [][Next]_vars

\* ================================================================= claims
Exited == exitCode \in {"0", "1"}

Finished(t) == pc[t] \in {"send", "sending", "done"}

Count(seq, x) == Cardinality({k \in 1..Len(seq) : seq[k] = x})

\* C1: however many calls of Archive.getArchive there are (the goroutine main
\* starts, each testHost, deleteArchive), CreateTestArchive runs once, and
\* every call that has returned got the (path, err) of that one construction.
C1_BuildOnce ==
    /\ builds <= 1
    /\ \A c \in Procs :
         got[c] # NoPair => builds = 1 /\ got[c] = <<arc.path, arc.err>>

\* C1 witness: main's goroutine, an executor and deleteArchive have all
\* returned from getArchive.
C1_Witness ==
    /\ got["arc"] # NoPair
    /\ got["main"] # NoPair
    /\ \E t \in targets : got[t] # NoPair
    /\ builds = 1

\* C2: main starts one executor per target, an executor sends one TestResult,
\* and when the collection loop is over main has received one result from
\* every target, the one that target produced, whatever the arrival order.
C2_OneResultPerTarget ==
    /\ running = Cardinality({t \in targets : pc[t] # "idle"})
    /\ \A t \in targets : sent[t] <= 1 /\ Count(recvFrom, t) <= 1
    /\ \A k \in 1..Len(received) : received[k] = result[recvFrom[k]]
    /\ (Exited \/ pc["main"] \in {"getArchive", "build", "gotArchive"}) =>
         /\ Len(received) = Cardinality(targets)
         /\ \A t \in targets : sent[t] = 1 /\ Count(recvFrom, t) = 1

\* C2 witness: two results were collected, the second target's first.
C2_Witness ==
    /\ Exited
    /\ Len(received) = 2
    /\ Index(recvFrom[1]) > Index(recvFrom[2])

\* C3: once the results are collected the process exits with 1 exactly when
\* some received result has exitOk false, and with 0 exactly when all have
\* exitOk true, in whatever order they came.
C3_ExitCode ==
    Exited =>
      /\ Len(received) = Cardinality(targets)
      /\ exitCode = "1" <=> \E k \in 1..Len(received) : ~received[k].exitOk
      /\ exitCode = "0" <=> \A k \in 1..Len(received) : received[k].exitOk

\* C3 witness: exit code 1 after a failed result that was followed by a
\* passing one.
C3_Witness ==
    /\ exitCode = "1"
    /\ Len(received) = 2
    /\ ~received[1].exitOk
    /\ received[2].exitOk

\* C4: with --delete-instances, an image's executor issues one
\* Instances.Delete, after its execution (createInstance, testHost) is over
\* and before its result is sent, whether or not the execution failed.
C4_DeleteOnce ==
    deleteInstances =>
      \A t \in images :
        /\ deletes[t] <= 1
        /\ deletes[t] = 1 => Finished(t) /\ result[t] # NoResult
        /\ Finished(t) => deletes[t] = 1

\* C4 witness: an instance was deleted after its provisioning failed, and the
\* run is over.
C4_Witness ==
    /\ deleteInstances
    /\ Exited
    /\ \E t \in images : deletes[t] = 1 /\ ci[t].err # Nil

\* C5: when the process ends after the collection of the results, with exit
\* code 0 or 1, the archive that was built is no longer on disk.
C5_ArchiveDeletedAtExit == Exited => ~archiveFile

\* C6: createInstance gives up after 30 status polls against a backend that
\* never reports RUNNING, and returns an error; against a backend that reports
\* RUNNING from poll r on (r = 3 in the claim) with a probe that succeeds at
\* once, it returns success after r polls and 1 probe.
C6_PollBudget ==
    \A t \in images :
      ci[t].called /\ ci[t].inserted =>
        /\ runningFrom[t] = 0 =>
             ci[t].polls = 30 /\ ci[t].probes = 0 /\ ci[t].err # Nil
        /\ runningFrom[t] # 0 /\ verifiedFrom[t] = 1 =>
             /\ ci[t].polls = runningFrom[t]
             /\ ci[t].probes = 1
             /\ ci[t].err = Nil

\* C6 witness: RUNNING on poll 3, verified at once: 3 polls and 1 probe.
C6_Witness ==
    \E t \in images :
      /\ runningFrom[t] = 3
      /\ verifiedFrom[t] = 1
      /\ ci[t].called
      /\ ci[t].polls = 3
      /\ ci[t].probes = 1
      /\ ci[t].err = Nil

\* C6 second witness: the backend never reported RUNNING and createInstance
\* returned an error after 30 polls.
C6_WitnessNever ==
    \E t \in images :
      runningFrom[t] = 0 /\ ci[t].polls = 30 /\ ci[t].err # Nil

\* C7: the TestResult of a target on which RunRemote was called carries
\* RunRemote's output, exitOk and err as they were returned: exitOk false and
\* a nil err when the tests ran and exited non-zero, exitOk false and a
\* non-nil err when the target could not be reached.
C7_RemoteOutcomeUnchanged ==
    \A t \in targets :
      remote[t] # NotRun =>
        /\ result[t].output = remote[t].output
        /\ result[t].exitOk = remote[t].exitOk
        /\ result[t].err = remote[t].err
        /\ remote[t].exit = "nonzero" =>
             ~result[t].exitOk /\ result[t].err = Nil
        /\ remote[t].exit = "none" =>
             ~result[t].exitOk /\ result[t].err # Nil

\* C7 witness: main received one result of a non-zero exit and one of an
\* unreachable target.
C7_Witness ==
    /\ Len(received) = 2
    /\ \E t, u \in targets :
         /\ remote[t].exit = "nonzero"
         /\ remote[u].exit = "none"
         /\ result[t].err = Nil
         /\ result[u].err # Nil

\* C8: a TestResult with exitOk true, wherever it is (returned, on the
\* channel, received), belongs to a target whose test command ran and exited
\* zero; a failed provisioning, status check or archive build gives exitOk
\* false.
C8_ExitOkOnlyFromZeroExit ==
    /\ \A t \in targets :
         result[t] # NoResult /\ result[t].exitOk =>
           remote[t].ran /\ remote[t].exit = "zero"
    /\ \A k \in 1..Len(received) :
         received[k].exitOk => remote[recvFrom[k]].exit = "zero"
    /\ results # Empty /\ results[2].exitOk => remote[results[1]].exit = "zero"

\* C8 witness: one target passed and another one failed before its tests
\* could run.
C8_Witness ==
    \E t, u \in targets :
      /\ result[t] # NoResult
      /\ result[t].exitOk
      /\ result[u] # NoResult
      /\ remote[u] = NotRun
      /\ ~result[u].exitOk

\* C9: an image's executor is in testHost (status check, archive, RunRemote)
\* only after createInstance returned a nil error, which it does only after
\* an attempt saw the instance RUNNING and the docker-version probe verified
\* it; after a failed createInstance RunRemote is never called, the archive
\* is not asked for, and the result is a failure.
C9_VerifiedBeforeRemote ==
    \A t \in images :
      /\ (remote[t] # NotRun \/ got[t] # NoPair
          \/ pc[t] \in {"testHost", "getArchive", "build", "gotArchive",
                        "runRemote"}) =>
           /\ ci[t].called
           /\ ci[t].err = Nil
           /\ ci[t].instanceRunning
           /\ ci[t].sawRunning
           /\ ci[t].probes >= 1
      /\ (ci[t].called /\ (ci[t].err # Nil \/ ~ci[t].instanceRunning)) =>
           /\ remote[t] = NotRun
           /\ got[t] = NoPair
           /\ result[t] # NoResult
           /\ ~result[t].exitOk

\* C9 witness: the tests ran on a verified instance.
C9_Witness ==
    \E t \in images : remote[t].ran /\ ci[t].instanceRunning

\* C9 second witness: provisioning failed after the instance was created and
\* the executor finished without a remote run.
C9_WitnessFailed ==
    \E t \in images :
      ci[t].inserted /\ ci[t].err # Nil /\ pc[t] = "done" /\ remote[t] = NotRun

\* a failure that belongs to one target: provisioning, status check,
\* transport, or a non-zero exit of the tests
TargetFailed(t) ==
    /\ result[t] # NoResult
    /\ ~result[t].exitOk
    /\ \/ kind[t] = "image" /\ ci[t].err # Nil
       \/ remote[t].exit \in {"none", "nonzero"}
       \/ got[t] = NoPair

\* the results a target can produce from what its own execution met
OwnResults(u) ==
    IF kind[u] = "image" /\ ci[u].err # Nil
    THEN {ProvisionFailResult(u, ci[u].err)}
    ELSE IF remote[u] # NotRun
    THEN {RunResult(HostOf(u), remote[u])}
    ELSE IF got[u] # NoPair
    THEN {ArchiveFailResult(HostOf(u), got[u][2])}
    ELSE {StatusFailResult(HostOf(u), e) :
            e \in {"get failed", "not in state RUNNING"}}

\* C10: when a target has failed, the process is not stopped for it: it ends
\* (exit code 0 or 1) only after every other target has delivered its result;
\* while it runs some step is always possible; and every other target's
\* result is the one its own execution gives.
C10_SiblingsUnaffected ==
    \A t \in targets :
      TargetFailed(t) =>
        /\ exitCode \in {Running, "0", "1"}
        /\ Alive => ENABLED Next
        /\ \A u \in targets \ {t} :
             /\ Exited => pc[u] = "done" /\ Count(recvFrom, u) = 1
             /\ result[u] # NoResult => result[u] \in OwnResults(u)
             /\ \A k \in 1..Len(received) :
                  recvFrom[k] = u => received[k] = result[u]

\* C10 witness: one target failed, the other one passed, and both results
\* were collected.
C10_Witness ==
    /\ exitCode = "1"
    /\ \E t, u \in targets :
         /\ t # u
         /\ TargetFailed(t)
         /\ result[u].exitOk
         /\ pc[u] = "done"

\* C11: once CreateTestArchive has failed, no executor calls RunRemote (no
\* bundle is delivered, no test command is run), every result there is has
\* exitOk false, and the process does not end with exit code 0: after the
\* collection of the results it exits with 1.
C11_BuildFailureFatal ==
    BuildFailed =>
      /\ \A t \in targets : remote[t] = NotRun /\ pc[t] # "runRemote"
      /\ \A t \in targets : result[t] # NoResult => ~result[t].exitOk
      /\ \A k \in 1..Len(received) : ~received[k].exitOk
      /\ exitCode # "0"
      /\ Exited => exitCode = "1" /\ Len(received) = Cardinality(targets)

\* C11 witness: the build failed, an executor was given the failure, and the
\* process exited with 1.
C11_Witness ==
    /\ BuildFailed
    /\ exitCode = "1"
    /\ \E t \in targets : got[t] # NoPair /\ pc[t] = "done"

\* C12: after a failed Instances.Delete the target's TestResult is still the
\* one its execution gave, the executor goes on to send it, the process is
\* not blocked, and the exit code is 0 exactly when every target's tests
\* exited zero.
C12_DeleteFailureOnlyLogged ==
    \A t \in images :
      deleteErr[t] # Nil =>
        /\ result[t] \in OwnResults(t)
        /\ Finished(t)
        /\ Alive => ENABLED Next
        /\ \A k \in 1..Len(received) :
             recvFrom[k] = t => received[k] \in OwnResults(t)
        /\ Exited =>
             /\ Len(received) = Cardinality(targets)
             /\ exitCode = "0" <=> \A u \in targets : remote[u].exit = "zero"

\* C12 witness: the delete failed and the run ended with exit code 0.
C12_Witness ==
    /\ exitCode = "0"
    /\ \E t \in images : deleteErr[t] # Nil /\ result[t].exitOk

\* the identifier of a target: the host name, or the name of the instance of
\* an image
TargetId(t) ==
    IF kind[t] = "image" THEN InstanceName(t) ELSE HostName(t)

\* C13: every TestResult main receives has in host the identifier of the
\* target that produced it.
C13_ResultNamesTarget ==
    \A k \in 1..Len(received) : received[k].host = TargetId(recvFrom[k])

\* C14 as stated: the two flags act independently: an instance is deleted
\* exactly when delete-instances is set, and the removal of the delivered
\* files is requested exactly when cleanup is set, for every target.
C14_FlagsIndependent ==
    \A t \in targets :
      /\ kind[t] = "image" /\ ci[t].called => deferred[t] = deleteInstances
      /\ remote[t] # NotRun => deleteFiles[t] = cleanup

\* C14 amended: the deletion of an instance depends on delete-instances
\* alone; the removal of the delivered files depends on cleanup alone on a
\* fixed host, and on an image it is requested exactly when cleanup is set
\* and delete-instances is not.
C14_FlagsAmended ==
    \A t \in targets :
      /\ kind[t] = "image" /\ ci[t].called => deferred[t] = deleteInstances
      /\ kind[t] = "image" /\ Finished(t) =>
           deletes[t] = (IF deleteInstances /\ ci[t].called THEN 1 ELSE 0)
      /\ kind[t] = "host" /\ remote[t] # NotRun => deleteFiles[t] = cleanup
      /\ kind[t] = "image" /\ remote[t] # NotRun =>
           deleteFiles[t] = (cleanup /\ ~deleteInstances)

\* C14 witness: both flags set, the tests ran on an image without the
\* removal of the files, and its instance was deleted.
C14_Witness ==
    /\ cleanup
    /\ deleteInstances
    /\ \E t \in images :
         remote[t] # NotRun /\ ~deleteFiles[t] /\ deletes[t] = 1

\* C15: with cleanup set, the run removes the delivered files of every
\* target it ran the tests on and deletes the instance of every image.
C15_CleanupDeletesInstances ==
    cleanup =>
      \A t \in targets :
        /\ kind[t] = "image" /\ Finished(t) /\ ci[t].called => deletes[t] = 1
        /\ kind[t] = "host" /\ remote[t] # NotRun => deleteFiles[t]

\* C16: createInstance, once Insert succeeded, returns a nil error exactly
\* when one of its at most 30 attempts read the status RUNNING and got a
\* reply of `docker version` containing "Server", that is when the probe
\* that succeeds falls within the 30 attempts: a failed probe uses up an
\* attempt like a failed status read does. A probe is made only in an
\* attempt that read RUNNING, so probes <= polls <= 30.
C16_RunningAndVerified ==
    \A t \in images :
      ci[t].called /\ ci[t].inserted =>
        LET rf == runningFrom[t]
            vf == verifiedFrom[t]
            within == rf # 0 /\ vf # 0 /\ rf + vf - 1 <= Attempts
        IN  /\ ci[t].err = Nil <=> ci[t].instanceRunning
            /\ ci[t].err = Nil <=> within
            /\ ci[t].probes <= ci[t].polls
            /\ ci[t].polls <= Attempts
            /\ ci[t].polls = ci[t].i
            /\ ci[t].probes > 0 <=> ci[t].sawRunning
            /\ within => ci[t].polls = rf + vf - 1 /\ ci[t].probes = vf
            /\ ~within =>
                 /\ ci[t].polls = Attempts
                 /\ ci[t].probes = (IF rf = 0 THEN 0 ELSE Attempts - rf + 1)

\* C16 witness: RUNNING from poll 28 and the daemon ready from the fourth
\* probe, which would be attempt 31: createInstance made 30 polls and 3
\* probes and returned an error.
C16_Witness ==
    \E t \in images :
      /\ runningFrom[t] = 28
      /\ verifiedFrom[t] = 4
      /\ ci[t].called
      /\ ci[t].polls = 30
      /\ ci[t].probes = 3
      /\ ci[t].sawRunning
      /\ ci[t].err # Nil

\* C17: when Insert failed (the call, or the operation it returned),
\* createInstance has returned an error without one status read or probe,
\* the result of that image is the provisioning failure, no test was run on
\* it, and every other target's result is the one its own execution gives.
C17_InsertFailureIsLocal ==
    \A t \in images :
      ci[t].called /\ ~ci[t].inserted =>
        /\ ci[t].err \in {"insert failed", "could not create instance"}
        /\ ci[t].name = NoHost
        /\ ci[t].polls = 0
        /\ ci[t].probes = 0
        /\ result[t] = ProvisionFailResult(t, ci[t].err)
        /\ remote[t] = NotRun
        /\ got[t] = NoPair
        /\ \A u \in targets \ {t} :
             /\ result[u] # NoResult => result[u] \in OwnResults(u)
             /\ \A k \in 1..Len(received) :
                  recvFrom[k] = u => received[k] = result[u]

\* C17 witness: the operation Insert returned carried an error, and another
\* target passed its tests; both results were received.
C17_Witness ==
    /\ Len(received) = 2
    /\ \E t \in images :
         /\ ci[t].called
         /\ ci[t].err = "could not create instance"
         /\ \E u \in targets \ {t} : result[u] # NoResult /\ result[u].exitOk

\* C18: RunRemote is asked to remove the delivered files on a host exactly
\* when cleanup is set, on the instance of an image exactly when cleanup is
\* set and delete-instances is not; it is never asked to on an instance
\* whose deletion is deferred.
C18_CleanupWhereKept ==
    \A t \in targets :
      /\ remote[t] # NotRun =>
           deleteFiles[t] = (IF kind[t] = "host" THEN cleanup
                             ELSE cleanup /\ ~deleteInstances)
      /\ deferred[t] => ~deleteFiles[t]
      /\ deletes[t] > 0 => ~deleteFiles[t]

\* C18 witness: cleanup set and delete-instances not: the tests ran on a
\* host and on an instance, both with the removal of the files.
C18_Witness ==
    /\ cleanup
    /\ ~deleteInstances
    /\ \E t \in images : remote[t] # NotRun /\ deleteFiles[t]
    /\ \E t \in hosts : remote[t] # NotRun /\ deleteFiles[t]

\* C19: an executor is past arc.getArchive (it holds the pair getArchive
\* returned, is about to call RunRemote, or has called it) only when the one
\* call of CreateTestArchive has returned, and the pair it holds is that
\* call's result; RunRemote is called only with the path of a build that
\* succeeded. While the build is running, an executor at arc.getArchive has
\* no step.
C19_BuildBeforeDelivery ==
    \A t \in targets :
      /\ pc[t] \in {"gotArchive", "runRemote"} \/ got[t] # NoPair
           \/ remote[t] # NotRun =>
           once = "done" /\ builds = 1
      /\ got[t] # NoPair => got[t] = getArchive
      /\ pc[t] = "runRemote" \/ remote[t] # NotRun =>
           got[t] = <<arc.path, Nil>>
      /\ pc[t] = "runRemote" => archiveFile
      /\ pc[t] = "getArchive" /\ once = "running" =>
           ~ENABLED GetArchiveEnter(t)

\* C19 witness: an executor is waiting at arc.getArchive while the goroutine
\* main started is building.
C19_Witness ==
    /\ once = "running"
    /\ pc["arc"] = "build"
    /\ \E t \in targets : pc[t] = "getArchive"

\* C19 second witness: the bundle was delivered, after the one build.
C19_WitnessDelivered ==
    /\ builds = 1
    /\ \E t \in targets : remote[t].delivered /\ got[t] = getArchive

\* C20 as stated: no instance is created or polled after the build has
\* failed and before the failure is reported.
C20_NoProvisionAfterBuildFailure ==
    \A t \in images : ci[t].called => ~ci[t].buildFailed

\* C20 amended: a failed build is reported by an executor when its testHost
\* asks for the bundle, which for an image is after its instance was created
\* and polled: until then the executor holds no result, and the executor that
\* was given the failure returns it without calling RunRemote.
C20_FailureReportedAtBundleRequest ==
    \A t \in targets :
      /\ BuildFailed /\ pc[t] \in {"testImage", "testHost", "getArchive"} =>
           result[t] = NoResult
      /\ got[t] # NoPair /\ got[t][2] # Nil =>
           /\ result[t] = ArchiveFailResult(HostOf(t), got[t][2])
           /\ remote[t] = NotRun
           /\ pc[t] # "runRemote"
           /\ kind[t] = "image" => ci[t].called /\ ci[t].err = Nil

\* C20 witness: an instance was created after the build had failed, and its
\* executor then returned the failure of the build.
C20_Witness ==
    \E t \in images :
      /\ ci[t].buildFailed
      /\ ci[t].err = Nil
      /\ ci[t].polls >= 1
      /\ got[t] # NoPair
      /\ result[t] = ArchiveFailResult(HostOf(t), got[t][2])

\* C21: under the fairness of the Go scheduler, with every external call
\* returning, the process ends, and every executor that was launched when
\* main is in its collection loop has its result received.
C21_Terminates ==
    /\ <>(exitCode # Running)
    /\ \A t \in AllTargets :
         (t \in targets /\ pc["main"] = "collect" /\ pc[t] # "idle")
           ~> (t \in targets /\ pc[t] = "done")
    /\ (pc["main"] = "collect") ~> (pc["main"] = "exited" /\ Exited)

\* C21 witness: two executors delivered their results and the process ended.
C21_Witness ==
    /\ Exited
    /\ Cardinality(targets) = 2
    /\ \A t \in targets : pc[t] = "done" /\ Count(recvFrom, t) = 1

\* C22: an Instances.Delete request is issued only by a target whose Insert
\* succeeded.
C22_DeleteOnlyCreated ==
    \A t \in images :
      pc[t] = "deleteInstance" \/ deletes[t] > 0 => ci[t].inserted

\* C24: with delete-instances set, the executor of an image offers its
\* TestResult to main only when its Instances.Delete request has returned, so
\* the request has returned when the result is received, and when the
\* process ends with exit code 0 or 1 every image has had its one request.
C24_DeleteBeforeReceive ==
    deleteInstances =>
      \A t \in images :
        /\ pc[t] \in {"send", "sending", "done"} => deletes[t] = 1
        /\ results # Empty /\ results[1] = t => deletes[t] = 1
        /\ Count(recvFrom, t) > 0 => deletes[t] = 1
        /\ Exited =>
             deletes[t] = 1 /\ pc[t] = "done" /\ Count(recvFrom, t) = 1

\* C24 witness: the process ended with exit code 1 after the instance of a
\* failed image was deleted and its result received.
C24_Witness ==
    /\ deleteInstances
    /\ exitCode = "1"
    /\ \E t \in images :
         deletes[t] = 1 /\ Count(recvFrom, t) = 1 /\ ~result[t].exitOk

\* C25: the error count of main is the number of received results with
\* exitOk false, so it is at least 1 when the exit code is 1.
C25_ErrCountIsFailures ==
    /\ errCount = Cardinality({k \in 1..Len(received) : ~received[k].exitOk})
    /\ exitCode = "1" => errCount >= 1

\* C26: the executor of a fixed host is past the status check (asks for the
\* archive, calls RunRemote) only if Instances.Get returned no error and a
\* status that is RUNNING when put in upper case; after any other answer its
\* result has a non-nil err, exitOk false and the host's name, the archive
\* was not asked for and RunRemote was not called.
C26_HostStatusCheck ==
    \A t \in hosts :
      LET st == hostStatus[t]
          ok == st.err = Nil /\ ToUpper(st.status) = "RUNNING"
      IN  /\ pc[t] \in {"getArchive", "build", "gotArchive", "runRemote"}
               \/ got[t] # NoPair \/ remote[t] # NotRun =>
               st # NoStatus /\ ok
          /\ st # NoStatus /\ ~ok =>
               /\ result[t] # NoResult
               /\ result[t].err # Nil
               /\ ~result[t].exitOk
               /\ result[t].host = HostName(t)
               /\ got[t] = NoPair
               /\ remote[t] = NotRun
               /\ pc[t] \in {"send", "sending", "done"}

\* C26 witness: a host whose status was "running" had its tests run, and a
\* host that was TERMINATED returned a failure.
C26_Witness ==
    \E t, u \in hosts :
      /\ hostStatus[t].status = "running"
      /\ remote[t].ran
      /\ hostStatus[u].status = "TERMINATED"
      /\ result[u] # NoResult
      /\ result[u].err = "not in state RUNNING"

\* an executor that works on its instance: it has asked for it to be
\* created and has not returned from testImage yet
UsesInstance(t) ==
    /\ ci[t].called
    /\ ci[t].inserted
    /\ pc[t] \in {"testHost", "getArchive", "build", "gotArchive", "runRemote"}

\* C23: two image targets with distinct short names never work under one
\* instance name: they do not both ask for an instance of the same name to be
\* created, and none deletes the instance of the name another one is using.
C23_NoSharedInstance ==
    \A t, u \in images :
      t # u =>
        /\ ci[t].called /\ ci[u].called => InstanceName(t) # InstanceName(u)
        /\ deletes[u] > 0 /\ UsesInstance(t) =>
             InstanceName(t) # InstanceName(u)

\* C27: every informer that was registered when Start was called has had
\* its Run launched with the stop channel of that call, and no informer's
\* Run was launched more than once.
C27_EachInformerRunOnce ==
    /\ \A k \in 1..Len(starts) :
         \A ty \in starts[k].informers :
           \E i \in 1..Len(launched[ty]) : launched[ty][i] = starts[k].stopCh
    /\ \A ty \in InformerTypes : Len(launched[ty]) <= 1

====
